---- MODULE Spec2Model ----
(***************************************************************************)
(* Model of src/src/main.cpp: the SDL application skeleton.  main() is a   *)
(* sequential process; each action is one statement of main (named by its  *)
(* source line), and the SDL library is the environment: it decides the    *)
(* result of every SDL call and posts the events SDL_PollEvent returns.    *)
(***************************************************************************)
EXTENDS Integers, Sequences, FiniteSets, TLC

\* ---- bounds ----
MaxQueue == 2      \* events pending in SDL's queue at one time
MaxEvents == 3     \* events the environment posts in one run

\* ---- values ----
NULL == 0
WindowHandle == 1
RendererHandle == 2
SDL_QUIT == "SDL_QUIT"
EventTypes == {SDL_QUIT, "SDL_KEYDOWN", "SDL_MOUSEMOTION"}
EXIT_SUCCESS == "EXIT_SUCCESS"
EXIT_FAILURE == "EXIT_FAILURE"
SdlResults == {0, -1}   \* an SDL call returns 0 on success, a negative code on failure
NotCalled == 1          \* stands for "SDL_Init has not returned yet" (it never returns 1)
True == "true"          \* the values of the bool `running`
False == "false"

VARIABLES
    pc,            \* position of main: the line of the next statement
    sdlInitRet,    \* what SDL_Init returned (NotCalled before the call)
    window,        \* the pointer held by the UniqueSdlWindow
    renderer,      \* the pointer held by the UniqueSdlRenderer
    running,       \* the loop flag ("undeclared" before line 77)
    event,         \* event.type ("uninit" until SDL_PollEvent fills it)
    pollRet,       \* what the last SDL_PollEvent returned
    exitStatus,    \* the value of the return statement ("none" before it)
    queue,         \* SDL's pending events, oldest first
    posted,        \* number of events posted so far
    calls,         \* lifecycle calls made to SDL, in order
    frameCalls,    \* render calls of the current outer-loop iteration, in order
    renderFailed,  \* some per-frame render call has returned an error
    quitPolled,    \* SDL_PollEvent has returned an SDL_QUIT event
    framesAfterQuit, \* calls to clear / present made since quitPolled
    everRendered   \* some frame has been cleared or presented

vars == <<pc, sdlInitRet, window, renderer, running, event, pollRet, exitStatus,
          queue, posted, calls, frameCalls, renderFailed, quitPolled,
          framesAfterQuit, everRendered>>

progVars == <<sdlInitRet, window, renderer, running, event, pollRet, exitStatus>>
histVars == <<calls, frameCalls, renderFailed, quitPolled, framesAfterQuit, everRendered>>
envVars == <<queue, posted>>

Init ==
    /\ pc = "L36"
    /\ sdlInitRet = NotCalled
    /\ window = NULL
    /\ renderer = NULL
    /\ running = "undeclared"
    /\ event = "uninit"
    /\ pollRet = 0
    /\ exitStatus = "none"
    /\ queue = <<>>
    /\ posted = 0
    /\ calls = <<>>
    /\ frameCalls = <<>>
    /\ renderFailed = FALSE
    /\ quitPolled = FALSE
    /\ framesAfterQuit = [clear |-> 0, present |-> 0]
    /\ everRendered = FALSE

\* ---- helpers ----
\* A call to SDL: the function and the handle it was given or returned
\* (NULL where there is none).
Call(fn, h) == [fn |-> fn, h |-> h]
Count(s, fn) == Cardinality({i \in DOMAIN s : s[i].fn = fn})
Before(s, f, g) == \A i, j \in DOMAIN s : (s[i].fn = f /\ s[j].fn = g) => i < j

\* A deleter that forgets the null check.
SdlWindowDeleter_NoNullCheck(w, cs) == Append(cs, Call("SDL_DestroyWindow", w))

\* The deleters (lines 11-25): SDL_Destroy* is called only on a non-null
\* pointer.
SdlWindowDeleter(w, cs) ==
    IF w # NULL THEN Append(cs, Call("SDL_DestroyWindow", w)) ELSE cs

SdlRendererDeleter(r, cs) ==
    IF r # NULL THEN Append(cs, Call("SDL_DestroyRenderer", r)) ELSE cs

\* ---- environment: an event arrives in SDL's queue ----
\* Events can arrive from the moment SDL_Init has succeeded until the loop
\* is left; the ones that arrive later are never polled.
PostEvent ==
    /\ pc \in {"L44", "L53", "L62", "L68", "L77",
               "L80", "L83", "L85", "L92", "L94", "L100"}
    /\ posted < MaxEvents
    /\ Len(queue) < MaxQueue
    /\ \E e \in EventTypes : queue' = Append(queue, e)
    /\ posted' = posted + 1
    /\ UNCHANGED <<pc, progVars, histVars>>

\* ---- 1. Initialize SDL (lines 36-39) ----
L36_SdlInit ==
    /\ pc = "L36"
    /\ \E ret \in SdlResults :
        /\ sdlInitRet' = ret
        /\ IF ret < 0
             THEN /\ exitStatus' = EXIT_FAILURE
                  /\ pc' = "done"
             ELSE /\ exitStatus' = exitStatus
                  /\ pc' = "L44"
    /\ calls' = Append(calls, Call("SDL_Init", NULL))
    /\ UNCHANGED <<window, renderer, running, event, pollRet, envVars,
                   frameCalls, renderFailed, quitPolled, framesAfterQuit, everRendered>>

\* ---- 2. Create Window (lines 44-57) ----
L44_CreateWindow ==
    /\ pc = "L44"
    /\ \E w \in {NULL, WindowHandle} :
        /\ window' = w
        /\ calls' = Append(calls, Call("SDL_CreateWindow", w))
    /\ pc' = "L53"
    /\ UNCHANGED <<sdlInitRet, renderer, running, event, pollRet, exitStatus, envVars,
                   frameCalls, renderFailed, quitPolled, framesAfterQuit, everRendered>>

\* The window check without its return statement: falls through to step 3.
L53_CheckWindow_NoReturn ==
    /\ pc = "L53"
    /\ IF window = NULL
         THEN /\ calls' = Append(calls, Call("SDL_Quit", NULL))
              /\ exitStatus' = EXIT_FAILURE
         ELSE UNCHANGED <<calls, exitStatus>>
    /\ pc' = "L62"
    /\ UNCHANGED <<sdlInitRet, window, renderer, running, event, pollRet, envVars,
                   frameCalls, renderFailed, quitPolled, framesAfterQuit, everRendered>>

L53_CheckWindow ==
    /\ pc = "L53"
    /\ IF window = NULL
         THEN /\ calls' = Append(calls, Call("SDL_Quit", NULL))
              /\ exitStatus' = EXIT_FAILURE
              /\ pc' = "dtor_window"
         ELSE /\ UNCHANGED <<calls, exitStatus>>
              /\ pc' = "L62"
    /\ UNCHANGED <<sdlInitRet, window, renderer, running, event, pollRet, envVars,
                   frameCalls, renderFailed, quitPolled, framesAfterQuit, everRendered>>

\* ---- 3. Create Renderer (lines 62-73) ----
L62_CreateRenderer ==
    /\ pc = "L62"
    /\ \E r \in {NULL, RendererHandle} :
        /\ renderer' = r
        /\ calls' = Append(calls, Call("SDL_CreateRenderer", r))
    /\ pc' = "L68"
    /\ UNCHANGED <<sdlInitRet, window, running, event, pollRet, exitStatus, envVars,
                   frameCalls, renderFailed, quitPolled, framesAfterQuit, everRendered>>

L68_CheckRenderer ==
    /\ pc = "L68"
    /\ IF renderer = NULL
         THEN /\ calls' = Append(calls, Call("SDL_Quit", NULL))
              /\ exitStatus' = EXIT_FAILURE
              /\ pc' = "dtor_renderer"
         ELSE /\ UNCHANGED <<calls, exitStatus>>
              /\ pc' = "L77"
    /\ UNCHANGED <<sdlInitRet, window, renderer, running, event, pollRet, envVars,
                   frameCalls, renderFailed, quitPolled, framesAfterQuit, everRendered>>

\* ---- 4. Main Application Loop (lines 77-101) ----
L77_DeclareRunning ==
    /\ pc = "L77"
    /\ running' = True
    /\ pc' = "L80"
    /\ UNCHANGED <<sdlInitRet, window, renderer, event, pollRet, exitStatus, envVars, histVars>>

\* while (running): enter one more iteration, or leave the loop.
WhileRunning(r) == r = True

L80_WhileRunning ==
    /\ pc = "L80"
    /\ IF WhileRunning(running)
         THEN /\ pc' = "L83"
              /\ frameCalls' = <<>>
         ELSE /\ pc' = "L108"
              /\ frameCalls' = frameCalls
    /\ UNCHANGED <<progVars, envVars, calls, renderFailed, quitPolled,
                   framesAfterQuit, everRendered>>

\* while (SDL_PollEvent(&event)): take the oldest pending event, or find none.
L83_PollEvent ==
    /\ pc = "L83"
    /\ IF queue # <<>>
         THEN /\ event' = Head(queue)
              /\ queue' = Tail(queue)
              /\ pollRet' = 1
              /\ quitPolled' = (quitPolled \/ Head(queue) = SDL_QUIT)
              /\ pc' = "L85"
         ELSE /\ pollRet' = 0
              /\ UNCHANGED <<event, queue, quitPolled>>
              /\ pc' = "L92"
    /\ UNCHANGED <<sdlInitRet, window, renderer, running, exitStatus, posted,
                   calls, frameCalls, renderFailed, framesAfterQuit, everRendered>>

\* Handlers that test the wrong thing: none, or every, event stops the loop.
HandleEvent_NeverStops(type, r) == r
HandleEvent_AnyEventStops(type, r) == False

\* if (event.type == SDL_QUIT) running = false;
HandleEvent(type, r) == IF type = SDL_QUIT THEN False ELSE r
\* A handler that leaves the loops as soon as it sees SDL_QUIT.
AfterHandleEvent_BreakOnQuit(type) == IF type = SDL_QUIT THEN "L108" ELSE "L83"

\* The inner loop has no break: after any event, poll again.
AfterHandleEvent(type) == "L83"

L85_HandleEvent ==
    /\ pc = "L85"
    /\ running' = HandleEvent(event, running)
    /\ pc' = AfterHandleEvent(event)
    /\ UNCHANGED <<sdlInitRet, window, renderer, event, pollRet, exitStatus, envVars, histVars>>

\* A render call whose failure ends the loop.
AfterRenderCall_StopOnError(ret, r) == IF ret < 0 THEN False ELSE r

\* What a per-frame render call's result does to the loop flag: nothing,
\* the result is discarded.
AfterRenderCall(ret, r) == r

RenderCall(here, name, next) ==
    /\ pc = here
    /\ \E ret \in SdlResults :
        /\ renderFailed' = (renderFailed \/ ret < 0)
        /\ running' = AfterRenderCall(ret, running)
    /\ frameCalls' = Append(frameCalls, name)
    /\ pc' = next
    /\ UNCHANGED <<sdlInitRet, window, renderer, event, pollRet, exitStatus,
                   envVars, calls, quitPolled>>

L92_SetRenderDrawColor ==
    /\ RenderCall("L92", "SDL_SetRenderDrawColor", "L94")
    /\ UNCHANGED <<framesAfterQuit, everRendered>>

\* A frame whose clear was left out.
L94_ClearOmitted ==
    /\ pc = "L94"
    /\ pc' = "L100"
    /\ UNCHANGED <<progVars, envVars, histVars>>

L94_RenderClear ==
    /\ RenderCall("L94", "SDL_RenderClear", "L100")
    /\ everRendered' = TRUE
    /\ framesAfterQuit' = IF quitPolled
                            THEN [framesAfterQuit EXCEPT !.clear = @ + 1]
                            ELSE framesAfterQuit

L100_RenderPresent ==
    /\ RenderCall("L100", "SDL_RenderPresent", "L80")
    /\ everRendered' = TRUE
    /\ framesAfterQuit' = IF quitPolled
                            THEN [framesAfterQuit EXCEPT !.present = @ + 1]
                            ELSE framesAfterQuit

\* ---- 5. Cleanup (lines 108-111) ----
L108_SdlQuit ==
    /\ pc = "L108"
    /\ calls' = Append(calls, Call("SDL_Quit", NULL))
    /\ exitStatus' = EXIT_SUCCESS
    /\ pc' = "dtor_renderer"
    /\ UNCHANGED <<sdlInitRet, window, renderer, running, event, pollRet, envVars,
                   frameCalls, renderFailed, quitPolled, framesAfterQuit, everRendered>>

\* Leaving main's scope after a return statement: the locals are destroyed
\* in reverse order of construction, renderer first, then window.
DtorRenderer ==
    /\ pc = "dtor_renderer"
    /\ calls' = SdlRendererDeleter(renderer, calls)
    /\ pc' = "dtor_window"
    /\ UNCHANGED <<progVars, envVars, frameCalls, renderFailed, quitPolled,
                   framesAfterQuit, everRendered>>

DtorWindow ==
    /\ pc = "dtor_window"
    /\ calls' = SdlWindowDeleter(window, calls)
    /\ pc' = "done"
    /\ UNCHANGED <<progVars, envVars, frameCalls, renderFailed, quitPolled,
                   framesAfterQuit, everRendered>>

MainStep ==
    \/ L36_SdlInit
    \/ L44_CreateWindow
    \/ L53_CheckWindow
    \/ L62_CreateRenderer
    \/ L68_CheckRenderer
    \/ L77_DeclareRunning
    \/ L80_WhileRunning
    \/ L83_PollEvent
    \/ L85_HandleEvent
    \/ L92_SetRenderDrawColor
    \/ L94_RenderClear
    \/ L100_RenderPresent
    \/ L108_SdlQuit
    \/ DtorRenderer
    \/ DtorWindow

Next == MainStep \/ PostEvent

Spec == Init /\ [][Next]_vars

\* main is a sequential program whose SDL calls all return: it always takes
\* its next step.  The environment is under no obligation to post events.
FairSpec == Spec /\ WF_vars(MainStep)

TypeOK ==
    /\ pc \in {"L36", "L44", "L53", "L62", "L68", "L77", "L80", "L83", "L85",
               "L92", "L94", "L100", "L108", "dtor_renderer", "dtor_window", "done"}
    /\ sdlInitRet \in SdlResults \cup {NotCalled}
    /\ window \in {NULL, WindowHandle}
    /\ renderer \in {NULL, RendererHandle}
    /\ running \in {"undeclared", True, False}
    /\ event \in EventTypes \cup {"uninit"}
    /\ pollRet \in {0, 1}
    /\ exitStatus \in {"none", EXIT_SUCCESS, EXIT_FAILURE}
    /\ Len(queue) <= MaxQueue
    /\ posted \in 0..MaxEvents

(***************************************************************************)
(* Properties                                                              *)
(***************************************************************************)
Clear == "SDL_RenderClear"
Present == "SDL_RenderPresent"
IsClearOrPresent(c) == c \in {Clear, Present}
ClearsAndPresents == SelectSeq(frameCalls, IsClearOrPresent)
AfterLoop == pc \in {"L108", "dtor_renderer", "dtor_window", "done"}
Returned == pc = "done"
LoopRan == running # "undeclared"
MainMoves == pc' # pc

\* C1: every iteration of the outer loop performs exactly one clear followed
\* by exactly one present: within an iteration the clears and presents made
\* so far are a prefix of <<clear, present>>, and at the step that ends the
\* iteration they are exactly <<clear, present>>.
C1_OneClearThenOnePresent ==
    /\ [](ClearsAndPresents \in {<<>>, <<Clear>>, <<Clear, Present>>})
    /\ [][pc = "L100" /\ pc' = "L80" => ClearsAndPresents' = <<Clear, Present>>]_vars
    /\ [][pc' = "L80" /\ MainMoves /\ pc # "L77" => pc = "L100"]_vars

C1_Witness == pc = "L80" /\ ClearsAndPresents = <<Clear, Present>>

\* C2: once SDL_PollEvent has returned SDL_QUIT the outer loop starts no
\* further iteration, and main eventually has called SDL_Quit and returned
\* EXIT_SUCCESS.
C2_QuitStopsLoop ==
    /\ [][quitPolled /\ pc = "L80" => pc' # "L83"]_vars
    /\ (quitPolled ~> (Returned /\ exitStatus = EXIT_SUCCESS
                                /\ Count(calls, "SDL_Quit") = 1))

C2_Witness == quitPolled /\ Returned /\ exitStatus = EXIT_SUCCESS

\* C3: handling a polled event that is not SDL_QUIT changes nothing but the
\* position of main, and `running` only ever changes from true to false.
C3_OnlyQuitHandled ==
    /\ [][pc = "L85" /\ MainMoves /\ event # SDL_QUIT
            => UNCHANGED <<progVars, envVars, histVars>>]_vars
    /\ [][running' # running /\ LoopRan => running = True /\ running' = False]_vars

C3_Witness ==
    /\ pc = "L83" /\ pollRet = 1
    /\ event \in EventTypes \ {SDL_QUIT}
    /\ running = True

\* C4: no SDL_Destroy* call is given a null handle, no handle is destroyed
\* twice, and when main has returned every handle that a create call
\* returned has been destroyed exactly once.
Destroyer(fn) == IF fn = "SDL_CreateWindow" THEN "SDL_DestroyWindow" ELSE "SDL_DestroyRenderer"
Destroyed(fn, h) == Cardinality({j \in DOMAIN calls : calls[j] = Call(Destroyer(fn), h)})

C4_ReleasedExactlyOnce ==
    /\ \A i \in DOMAIN calls :
           calls[i].fn \in {"SDL_DestroyWindow", "SDL_DestroyRenderer"}
               => calls[i].h # NULL
    /\ \A i \in DOMAIN calls :
           calls[i].fn \in {"SDL_CreateWindow", "SDL_CreateRenderer"} /\ calls[i].h # NULL
               => /\ Destroyed(calls[i].fn, calls[i].h) <= 1
                  /\ Returned => Destroyed(calls[i].fn, calls[i].h) = 1
    /\ Count(calls, "SDL_DestroyWindow") <= Count(calls, "SDL_CreateWindow")
    /\ Count(calls, "SDL_DestroyRenderer") <= Count(calls, "SDL_CreateRenderer")

C4_Witness ==
    /\ Returned /\ exitStatus = EXIT_FAILURE
    /\ window # NULL /\ renderer = NULL
    /\ Count(calls, "SDL_DestroyWindow") = 1

\* C5: after initialization has succeeded the loop ends only because an
\* SDL_QUIT was polled; a per-frame render call, failed or not, changes
\* neither `running` nor the exit status and goes on to the next statement.
RenderResultDiscarded ==
    pc \in {"L92", "L94", "L100"} /\ MainMoves
        => /\ running' = running
           /\ exitStatus' = exitStatus
           /\ pc' \in {"L94", "L100", "L80"}

C5_RenderErrorsIgnored ==
    /\ [][RenderResultDiscarded]_vars
    /\ [](AfterLoop /\ LoopRan => quitPolled)
    /\ [](Returned /\ LoopRan => exitStatus = EXIT_SUCCESS)

C5_Witness == renderFailed /\ pc = "L83" /\ running = True /\ ~quitPolled

\* C8 (as claimed): no SDL_DestroyRenderer or SDL_DestroyWindow call happens
\* after SDL_Quit, and the renderer is destroyed before the window.
C8_DestroyedBeforeQuit ==
    /\ Before(calls, "SDL_DestroyRenderer", "SDL_Quit")
    /\ Before(calls, "SDL_DestroyWindow", "SDL_Quit")
    /\ Before(calls, "SDL_DestroyRenderer", "SDL_DestroyWindow")

\* C9: initialization is fail-fast.  The steps run in the order SDL_Init,
\* SDL_CreateWindow, SDL_CreateRenderer, each at most once; after a failed
\* step no later step is attempted, no frame is cleared or presented and
\* main returns EXIT_FAILURE; SDL_Quit is called exactly once when SDL_Init
\* succeeded and never when it failed; EXIT_SUCCESS comes only after all
\* three steps succeeded and the loop ended.
InitFailed == sdlInitRet < 0
WindowFailed == Count(calls, "SDL_CreateWindow") = 1 /\ window = NULL
RendererFailed == Count(calls, "SDL_CreateRenderer") = 1 /\ renderer = NULL

C9_FailFast ==
    /\ \A fn \in {"SDL_Init", "SDL_CreateWindow", "SDL_CreateRenderer", "SDL_Quit"} :
           Count(calls, fn) <= 1
    /\ Count(calls, "SDL_CreateRenderer") <= Count(calls, "SDL_CreateWindow")
    /\ Count(calls, "SDL_CreateWindow") <= Count(calls, "SDL_Init")
    /\ Before(calls, "SDL_Init", "SDL_CreateWindow")
    /\ Before(calls, "SDL_CreateWindow", "SDL_CreateRenderer")
    /\ InitFailed => /\ Count(calls, "SDL_CreateWindow") = 0
                     /\ Count(calls, "SDL_Quit") = 0
    /\ WindowFailed => Count(calls, "SDL_CreateRenderer") = 0
    /\ InitFailed \/ WindowFailed \/ RendererFailed
           => /\ ~everRendered
              /\ ~LoopRan
              /\ exitStatus # EXIT_SUCCESS
              /\ Returned => exitStatus = EXIT_FAILURE
    /\ Returned => Count(calls, "SDL_Quit") = (IF sdlInitRet = 0 THEN 1 ELSE 0)
    /\ exitStatus = EXIT_SUCCESS
           => /\ sdlInitRet = 0 /\ window # NULL /\ renderer # NULL
              /\ running = False

C9_Witness ==
    /\ Returned /\ exitStatus = EXIT_FAILURE
    /\ sdlInitRet = 0 /\ WindowFailed
    /\ Count(calls, "SDL_Quit") = 1

\* C10: rendering starts only after SDL_PollEvent reported no event; after
\* any event, SDL_QUIT included, the inner loop polls again; and once the
\* loop has ended, exactly one clear and one present were made since the
\* SDL_QUIT was polled.
C10_DrainThenPresentOnce ==
    /\ [](pc = "L92" => pollRet = 0)
    /\ [][pc = "L85" /\ MainMoves => pc' = "L83"]_vars
    /\ [](framesAfterQuit.clear <= 1 /\ framesAfterQuit.present <= framesAfterQuit.clear)
    /\ [](AfterLoop /\ LoopRan => framesAfterQuit = [clear |-> 1, present |-> 1])

C10_Witness ==
    /\ pc = "L108" /\ quitPolled
    /\ event # SDL_QUIT
    /\ framesAfterQuit = [clear |-> 1, present |-> 1]
====
